---- MODULE Spec2Model ----
(***************************************************************************)
(* Model of pkg/inventory/container/collection.go: the Collection that     *)
(* reconciles stored models with desired models through a DB transaction,  *)
(* and the reflect-based DefaultShepherd.                                   *)
(***************************************************************************)
EXTENDS Integers, Sequences, FiniteSets, TLC

VARIABLES
    Stored,     \* Collection.Stored: the iterator over the stored models
    Shepherd,   \* Collection.Shepherd: "nil" or "custom"
    Added,      \* Collection.Added
    Updated,    \* Collection.Updated
    Deleted,    \* Collection.Deleted
    db,         \* the storage behind Collection.Tx: pk -> model or Nil
    txStats,    \* successful calls the Tx has performed: [ins, upd, del]
    source,     \* the models the caller's desired iterators yield
    desired,    \* the desired iterator passed to the running call
    op,         \* the running public method
    pc,         \* position inside the running call
    mp,         \* the Dispositions map of the running call
    visited,    \* keys the running range loop has already handled
    calls,      \* Tx calls made by the running call, in order
    err,        \* error returned by the last finished call
    ncalls,     \* number of public calls started on this Collection
    base,       \* db and counters when the running call started
    shepherdCalls,  \* the Shepherd calls of the running call, with arguments
    mA, mB,     \* the two models passed to a DefaultShepherd method
    out,        \* what that method returned and left in the two models
    spc         \* whether the DefaultShepherd method has been called

vars == <<Stored, Shepherd, Added, Updated, Deleted, db, txStats, source,
          desired, op, pc, mp, visited, calls, err, ncalls, base,
          shepherdCalls, mA, mB, out, spc>>

engineVars == <<Stored, Shepherd, Added, Updated, Deleted, db, txStats,
                source, desired, op, pc, mp, visited, calls, err, ncalls,
                base, shepherdCalls>>

shepherdVars == <<mA, mB, out, spc>>

----------------------------------------------------------------------------
(* Bounds of the model. *)

\* longest stored / desired sequence
MaxLen == 2
\* public calls made on one Collection
MaxCalls == 2

\* primary keys
Keys == {1, 2, 3}
\* values of a non-key field
Vals == {0, 1}

----------------------------------------------------------------------------
(* Models and their fields (model.Model, model.Field).                     *)

\* A field's metadata: the `sql:"pk"` flag, the `sql:"incremented"` flag
\* and the value of the `eq` tag ("" when the tag is absent).
Fld(pk, inc, eq) == [pk |-> pk, incremented |-> inc, eq |-> eq]

\* The field list model.Table{}.Fields(m) yields for each model type.
Schema(t) ==
    CASE t = "VM"    -> << Fld(TRUE, FALSE, ""), Fld(FALSE, FALSE, ""),
                           Fld(FALSE, FALSE, "-") >>
      [] t = "Host"  -> << Fld(TRUE, FALSE, ""), Fld(FALSE, TRUE, ""),
                           Fld(FALSE, FALSE, "x"), Fld(FALSE, FALSE, "-") >>
      [] t = "Label" -> << Fld(TRUE, FALSE, ""), Fld(FALSE, FALSE, "") >>
      [] OTHER       -> << >>

Types == {"VM", "Host", "Label"}

\* the nil model.Model
Nil == [type |-> "nil", vals |-> << >>]

\* all sequences over S of length n
RECURSIVE Tuples(_, _)
Tuples(S, n) ==
    IF n = 0 THEN { << >> }
    ELSE { Append(s, x) : s \in Tuples(S, n - 1), x \in S }

\* all sequences over S of length at most n
RECURSIVE SeqsUpTo(_, _)
SeqsUpTo(S, n) ==
    IF n = 0 THEN { << >> } ELSE SeqsUpTo(S, n - 1) \cup Tuples(S, n)

\* the models of type t
ModelsOf(t) ==
    { [type |-> t, vals |-> <<k>> \o v] :
        k \in Keys, v \in Tuples(Vals, Len(Schema(t)) - 1) }

\* m.Pk(): the value of the primary key field
Pk(m) == m.vals[CHOOSE i \in 1..Len(Schema(m.type)) : Schema(m.type)[i].pk]

\* the keys of the models of the sequence s
KeysOf(s) == { Pk(s[i]) : i \in 1..Len(s) }

\* no two models of the sequence s have the same key
UniqueKeys(s) == \A i, j \in 1..Len(s) : Pk(s[i]) = Pk(s[j]) => i = j

----------------------------------------------------------------------------
(* DefaultShepherd: the reflect-based shepherd.                            *)

\* ignored, taking any `eq` tag for the exclusion tag
ignoredAnyTag(f) ==
    IF f.pk \/ f.incremented THEN TRUE
    ELSE IF f.eq # "" THEN TRUE
    ELSE FALSE

\* DefaultShepherd.ignored: the field is the PK, is incremented, or has
\* the `eq:"-"` tag.
ignored(f) ==
    IF f.pk \/ f.incremented THEN TRUE
    ELSE IF f.eq = "-" THEN TRUE
    ELSE FALSE

\* The loop of DefaultShepherd.Equals from index i on.  fieldsB[i] is read
\* before anything else in the body, so a shorter fieldsB panics there.
RECURSIVE EqualsFrom(_, _, _)
EqualsFrom(a, b, i) ==
    IF i > Len(Schema(a.type)) THEN "true"
    ELSE IF i > Len(Schema(b.type)) THEN "panic"
    ELSE IF ignored(Schema(a.type)[i]) THEN EqualsFrom(a, b, i + 1)
    ELSE IF a.vals[i] # b.vals[i] THEN "false"
    ELSE EqualsFrom(a, b, i + 1)

\* DefaultShepherd.Equals(mA, mB): "true", "false" or "panic" (index out
\* of range).
DefaultEquals(a, b) == EqualsFrom(a, b, 1)

\* The loop of DefaultShepherd.Update from index i on: a is the stored
\* model as mutated so far.
RECURSIVE UpdateFrom(_, _, _)
UpdateFrom(a, b, i) ==
    IF i > Len(Schema(a.type)) THEN [m |-> a, panic |-> FALSE]
    ELSE IF i > Len(Schema(b.type)) THEN [m |-> a, panic |-> TRUE]
    ELSE IF ignored(Schema(a.type)[i]) THEN UpdateFrom(a, b, i + 1)
    ELSE UpdateFrom([a EXCEPT !.vals[i] = b.vals[i]], b, i + 1)

\* DefaultUpdate, copying every field
DefaultUpdateAll(a, b) ==
    [m |-> [a EXCEPT !.vals = [i \in 1..Len(a.vals) |->
                IF i <= Len(b.vals) THEN b.vals[i] ELSE a.vals[i]]],
     panic |-> Len(b.vals) < Len(a.vals)]

\* DefaultShepherd.Update(mA, mB): mA after the call, and whether the call
\* panicked.
DefaultUpdate(a, b) == UpdateFrom(a, b, 1)

----------------------------------------------------------------------------
(* A caller-supplied Shepherd: it compares and copies every field but the  *)
(* primary key, the `eq:"-"` fields included.                              *)

CustomEquals(a, b) ==
    IF \A i \in 1..Len(a.vals) : Schema(a.type)[i].pk \/ a.vals[i] = b.vals[i]
    THEN "true" ELSE "false"

CustomUpdate(a, b) ==
    [m |-> [a EXCEPT !.vals = [i \in 1..Len(a.vals) |->
                IF Schema(a.type)[i].pk THEN a.vals[i] ELSE b.vals[i]]],
     panic |-> FALSE]

\* Resolve, never looking at r.Shepherd
ResolveDefault(s) == "default"

\* Collection.update: the shepherd in use is r.Shepherd, or a
\* DefaultShepherd when r.Shepherd is nil.
Resolve(s) == IF s = "nil" THEN "default" ELSE s

\* shepherd.Equals(x, y) / shepherd.Update(x, y) of the resolved shepherd
ShEquals(s, x, y) ==
    IF Resolve(s) = "default" THEN DefaultEquals(x, y) ELSE CustomEquals(x, y)

ShUpdate(s, x, y) ==
    IF Resolve(s) = "default" THEN DefaultUpdate(x, y) ELSE CustomUpdate(x, y)

----------------------------------------------------------------------------
(* fb.Iterator and model.Tx, the collaborators of the Collection.          *)

\* An iterator over the sequence s, nothing read yet.  eof records that
\* Next() has returned hasNext = false.
Iter(s) == [items |-> s, pos |-> 0, eof |-> FALSE]

\* what the iterator has yet to yield
Rest(it) == SubSeq(it.items, it.pos + 1, Len(it.items))

\* the iterator after Next() was called until it returned hasNext = false
Drain(it) == [it EXCEPT !.pos = Len(it.items), !.eof = TRUE]

\* the models of the storage d whose keys are in S, by ascending key
RECURSIVE DbSeq(_, _)
DbSeq(d, S) ==
    IF S = {} THEN << >>
    ELSE LET k == CHOOSE x \in S : \A y \in S : x <= y
         IN  (IF d[k] = Nil THEN << >> ELSE << d[k] >>) \o DbSeq(d, S \ {k})

\* the storage that holds the models of the sequence s
RECURSIVE DbOf(_)
DbOf(s) ==
    IF s = << >> THEN [k \in Keys |-> Nil]
    ELSE [DbOf(SubSeq(s, 1, Len(s) - 1)) EXCEPT ![Pk(s[Len(s)])] = s[Len(s)]]

\* the storage after a successful Tx.Insert / Tx.Update / Tx.Delete of m
TxApply(d, call, m) ==
    IF call = "Delete" THEN [d EXCEPT ![Pk(m)] = Nil]
    ELSE [d EXCEPT ![Pk(m)] = m]

\* the Tx's tally after a successful call
TxCount(t, call) ==
    CASE call = "Insert" -> [t EXCEPT !.ins = t.ins + 1]
      [] call = "Update" -> [t EXCEPT !.upd = t.upd + 1]
      [] call = "Delete" -> [t EXCEPT !.del = t.del + 1]

\* what a Tx call may return: nil or the call's error
TxResults(call) == {"nil", call \o "Failed"}

----------------------------------------------------------------------------
(* Disposition and Dispositions.                                           *)

Disposition(st, de) == [stored |-> st, desired |-> de]

\* the empty Dispositions map
NoDispositions == [k \in {} |-> Disposition(Nil, Nil)]

\* mp[k] = dpn
Put(m, k, dpn) == [x \in DOMAIN m \cup {k} |-> IF x = k THEN dpn ELSE m[x]]

\* putStored, keeping the entry a key already has
putStoredFirst(m, o) ==
    IF Pk(o) \in DOMAIN m THEN m ELSE Put(m, Pk(o), Disposition(o, Nil))

\* Collection.dispositions, first loop body: mp[m.Pk()] = &Disposition{stored: m}
putStored(m, o) == Put(m, Pk(o), Disposition(o, Nil))

\* putDesired, always making a new entry
putDesiredNew(m, o) == Put(m, Pk(o), Disposition(Nil, o))

\* Collection.dispositions, second loop body: a new entry when the key is
\* not found, else dpn.desired = m.
putDesired(m, o) ==
    IF Pk(o) \notin DOMAIN m THEN Put(m, Pk(o), Disposition(Nil, o))
    ELSE Put(m, Pk(o), [m[Pk(o)] EXCEPT !.desired = o])

\* the map after the first loop has put the objects of s, in order
RECURSIVE FoldStored(_, _)
FoldStored(m, s) ==
    IF s = << >> THEN m ELSE FoldStored(putStored(m, Head(s)), Tail(s))

\* the map after the second loop has put the objects of s, in order
RECURSIVE FoldDesired(_, _)
FoldDesired(m, s) ==
    IF s = << >> THEN m ELSE FoldDesired(putDesired(m, Head(s)), Tail(s))

\* toDelete, not looking at the desired side
toDeleteAny(dpn) == dpn.stored # Nil

\* Collection.delete: the condition of the loop body
toDelete(dpn) == dpn.stored # Nil /\ dpn.desired = Nil

\* toAdd, not looking at the stored side
toAddAny(dpn) == dpn.desired # Nil

\* Collection.add: the condition of the loop body
toAdd(dpn) == dpn.desired # Nil /\ dpn.stored = Nil

\* Collection.update: the arguments of shepherd.Equals, in call order
EqualsArgs(dpn) == <<dpn.desired, dpn.stored>>

\* Collection.update: the arguments of shepherd.Update, in call order
UpdateArgs(dpn) == <<dpn.stored, dpn.desired>>

\* a Shepherd call as the Shepherd sees it
ShepherdCall(call, args) == [call |-> call, a |-> args[1], b |-> args[2]]

\* toUpdate, comparing the desired model with itself
toUpdateSelf(s, dpn) ==
    /\ ~(dpn.desired = Nil \/ dpn.stored = Nil)
    /\ ShEquals(s, dpn.desired, dpn.desired) # "true"

\* Collection.update: the entries the loop does not skip
toUpdate(s, dpn) ==
    /\ ~(dpn.desired = Nil \/ dpn.stored = Nil)
    /\ ShEquals(s, EqualsArgs(dpn)[1], EqualsArgs(dpn)[2]) # "true"

\* firstPhase, Reconcile starting with the add phase
firstPhaseAdd(o) ==
    CASE o = "Update" -> "update"
      [] o = "Delete" -> "delete"
      [] OTHER        -> "add"

\* the phase a public method runs first
firstPhase(o) ==
    CASE o = "Add"    -> "add"
      [] o = "Update" -> "update"
      [] OTHER        -> "delete"

\* afterPhase, Reconcile running update before add
afterPhaseUpdateFirst(o, phase) ==
    IF o = "Reconcile"
    THEN CASE phase = "delete" -> "update"
           [] phase = "update" -> "add"
           [] OTHER            -> "idle"
    ELSE "idle"

\* where a call goes when a phase returned nil: Reconcile runs delete, add,
\* update; Add, Update and Delete return.
afterPhase(o, phase) ==
    IF o = "Reconcile"
    THEN CASE phase = "delete" -> "add"
           [] phase = "add"    -> "update"
           [] OTHER            -> "idle"
    ELSE "idle"

\* Incr, counting the failed calls too
IncrAlways(n, e) == n + 1

\* r.Added++ (and r.Updated++, r.Deleted++), reached when err == nil
Incr(n, e) == IF e = "nil" THEN n + 1 ELSE n

----------------------------------------------------------------------------
(* The Collection.                                                         *)

\* The models of the stored side and of the desired side.  Between a
\* stored and a desired model of one key every case occurs: identical,
\* differing in the `eq:"-"` field only, in the compared field only, in both.
StoredModels == { m \in ModelsOf("VM") : m.vals[3] = m.vals[2] }

DesiredModels == { m \in ModelsOf("VM") : m.vals[3] = 0 }

\* what the storage may hold when the Collection is constructed
Storages ==
    { d \in [Keys -> StoredModels \cup {Nil}] :
        \A k \in Keys : d[k] # Nil => Pk(d[k]) = k }

\* what a desired iterator may yield (keys may repeat)
DesiredSeqs == SeqsUpTo(DesiredModels, MaxLen)

Methods == {"Add", "Update", "Delete", "Reconcile"}

NoOut == [call |-> "none", res |-> "none", a |-> Nil, b |-> Nil]

\* The iterator it would yield exactly the models the storage d holds.
FreshOver(it, d) == it.pos = 0 /\ ~it.eof /\ it.items = DbSeq(d, Keys)

\* What a call finds when it starts: the storage, r.Stored, the counters,
\* whether the call before it was a Reconcile, and whether that call found
\* r.Stored a fresh iterator over the storage.
Snapshot ==
    [db |-> db, stored |-> Stored, Added |-> Added, Updated |-> Updated,
     Deleted |-> Deleted,
     afterReconcile |-> (ncalls > 0 /\ op = "Reconcile"),
     afterFresh |-> (ncalls > 0 /\ FreshOver(base.stored, base.db))]

NoSnapshot ==
    [db |-> db, stored |-> Stored, Added |-> 0, Updated |-> 0, Deleted |-> 0,
     afterReconcile |-> FALSE, afterFresh |-> FALSE]

\* A Collection as constructed: a Stored iterator over the storage's
\* models, a Tx on that storage, an optional Shepherd, counters at zero.
Init ==
    /\ db \in Storages
    /\ Stored = Iter(DbSeq(db, Keys))
    /\ Shepherd \in {"nil", "custom"}
    /\ Added = 0 /\ Updated = 0 /\ Deleted = 0
    /\ txStats = [ins |-> 0, upd |-> 0, del |-> 0]
    /\ source \in DesiredSeqs
    /\ desired = Iter(<< >>)
    /\ op = "none" /\ pc = "idle"
    /\ mp = NoDispositions
    /\ visited = {}
    /\ calls = << >>
    /\ err = "nil"
    /\ ncalls = 0
    /\ base = NoSnapshot
    /\ shepherdCalls = {}
    /\ mA = Nil /\ mB = Nil /\ out = NoOut /\ spc = "off"

\* What starting a public method does: a desired iterator is passed, the
\* method calls r.dispositions(desired) first.
Enter(o) ==
    /\ op' = o /\ pc' = "stored"
    /\ desired' = Iter(source)
    /\ mp' = NoDispositions
    /\ visited' = {} /\ calls' = << >> /\ err' = "nil"
    /\ ncalls' = ncalls + 1
    /\ base' = Snapshot
    /\ shepherdCalls' = {}
    /\ UNCHANGED <<Stored, Shepherd, Added, Updated, Deleted, db, txStats,
                   source>>
    /\ UNCHANGED shepherdVars

\* The caller invokes Add, Update, Delete or Reconcile on the Collection it
\* constructed.
Call(o) ==
    /\ pc = "idle" /\ ncalls = 0
    /\ Enter(o)

\* The caller invokes a method on a Collection it has used before.  A
\* caller that got an error gives the Collection up.
CallAgain(o) ==
    /\ pc = "idle" /\ ncalls > 0 /\ ncalls < MaxCalls /\ err = "nil"
    /\ Enter(o)

\* Between two calls the caller points r.Stored at a fresh iterator over
\* the storage.
Rebind ==
    /\ pc = "idle" /\ ncalls > 0 /\ ncalls < MaxCalls /\ err = "nil"
    /\ Stored.eof
    /\ Stored' = Iter(DbSeq(db, Keys))
    /\ UNCHANGED <<Shepherd, Added, Updated, Deleted, db, txStats, source,
                   desired, op, pc, mp, visited, calls, err, ncalls, base>>
    /\ UNCHANGED shepherdCalls
    /\ UNCHANGED shepherdVars

\* storedLoop, reading Stored from its first object on every call
storedLoopRewind ==
    /\ pc = "stored"
    /\ Stored' = Drain(Stored)
    /\ mp' = FoldStored(mp, Stored.items)
    /\ pc' = "desired"
    /\ UNCHANGED <<Shepherd, Added, Updated, Deleted, db, txStats, source,
                   desired, op, visited, calls, err, ncalls, base>>
    /\ UNCHANGED shepherdCalls
    /\ UNCHANGED shepherdVars

\* Collection.dispositions, first loop: r.Stored.Next() until it returns
\* hasNext = false, each object put as the stored side of its key.
storedLoop ==
    /\ pc = "stored"
    /\ Stored' = Drain(Stored)
    /\ mp' = FoldStored(mp, Rest(Stored))
    /\ pc' = "desired"
    /\ UNCHANGED <<Shepherd, Added, Updated, Deleted, db, txStats, source,
                   desired, op, visited, calls, err, ncalls, base>>
    /\ UNCHANGED shepherdCalls
    /\ UNCHANGED shepherdVars

\* desiredLoop, the phase starting after the first object read
desiredLoopStreaming ==
    /\ pc = "desired"
    /\ desired' = (IF Len(Rest(desired)) <= 1 THEN Drain(desired)
                   ELSE [desired EXCEPT !.pos = @ + 1])
    /\ mp' = FoldDesired(mp, IF Rest(desired) = << >> THEN << >>
                             ELSE <<Head(Rest(desired))>>)
    /\ pc' = firstPhase(op)
    /\ UNCHANGED <<Stored, Shepherd, Added, Updated, Deleted, db, txStats,
                   source, op, visited, calls, err, ncalls, base>>
    /\ UNCHANGED shepherdCalls
    /\ UNCHANGED shepherdVars

\* Collection.dispositions, second loop: desired.Next() until it returns
\* hasNext = false; the method's phase starts with the finished map.
desiredLoop ==
    /\ pc = "desired"
    /\ desired' = Drain(desired)
    /\ mp' = FoldDesired(mp, Rest(desired))
    /\ pc' = firstPhase(op)
    /\ UNCHANGED <<Stored, Shepherd, Added, Updated, Deleted, db, txStats,
                   source, op, visited, calls, err, ncalls, base>>
    /\ UNCHANGED shepherdCalls
    /\ UNCHANGED shepherdVars

\* TxCall, the loop going on after an error
TxCallResume(call, m, e, k) ==
    /\ calls' = Append(calls, [call |-> call, m |-> m, err |-> e])
    /\ visited' = visited \cup {k}
    /\ pc' = pc
    /\ IF e = "nil"
       THEN /\ db' = TxApply(db, call, m)
            /\ txStats' = TxCount(txStats, call)
            /\ err' = err
       ELSE /\ err' = e
            /\ UNCHANGED <<db, txStats>>

\* The Tx call of a loop body and what follows it: on nil the storage
\* changes and the loop goes on, on an error the method returns it.
TxCall(call, m, e, k) ==
    /\ calls' = Append(calls, [call |-> call, m |-> m, err |-> e])
    /\ IF e = "nil"
       THEN /\ db' = TxApply(db, call, m)
            /\ txStats' = TxCount(txStats, call)
            /\ visited' = visited \cup {k}
            /\ UNCHANGED <<pc, err>>
       ELSE /\ err' = e /\ pc' = "idle" /\ visited' = {}
            /\ UNCHANGED <<db, txStats>>

\* PhaseReturn, every method going on to the phases of Reconcile
PhaseReturnOn(phase) ==
    /\ pc' = afterPhase("Reconcile", phase)
    /\ visited' = {}
    /\ UNCHANGED <<Stored, Shepherd, Added, Updated, Deleted, db, txStats,
                   source, desired, op, mp, calls, err, ncalls, base>>

\* The range loop ended: the phase returns nil.
PhaseReturn(phase) ==
    /\ pc' = afterPhase(op, phase)
    /\ visited' = {}
    /\ UNCHANGED <<Stored, Shepherd, Added, Updated, Deleted, db, txStats,
                   source, desired, op, mp, calls, err, ncalls, base>>

\* Collection.delete: one iteration that passes the condition.  The range
\* visits the entries in any order; an entry failing the condition is
\* passed over without effect.
delete ==
    /\ pc = "delete"
    /\ \E k \in DOMAIN mp \ visited :
         /\ toDelete(mp[k])
         /\ \E e \in TxResults("Delete") :
              /\ TxCall("Delete", mp[k].stored, e, k)
              /\ Deleted' = Incr(Deleted, e)
    /\ UNCHANGED <<Stored, Shepherd, Added, Updated, source, desired, op, mp,
                   ncalls, base>>
    /\ UNCHANGED shepherdCalls
    /\ UNCHANGED shepherdVars

deleteReturn ==
    /\ pc = "delete"
    /\ \A k \in DOMAIN mp \ visited : ~toDelete(mp[k])
    /\ PhaseReturn("delete")
    /\ UNCHANGED shepherdCalls
    /\ UNCHANGED shepherdVars

\* Collection.add: one iteration that passes the condition.
add ==
    /\ pc = "add"
    /\ \E k \in DOMAIN mp \ visited :
         /\ toAdd(mp[k])
         /\ \E e \in TxResults("Insert") :
              /\ TxCall("Insert", mp[k].desired, e, k)
              /\ Added' = Incr(Added, e)
    /\ UNCHANGED <<Stored, Shepherd, Updated, Deleted, source, desired, op, mp,
                   ncalls, base>>
    /\ UNCHANGED shepherdCalls
    /\ UNCHANGED shepherdVars

addReturn ==
    /\ pc = "add"
    /\ \A k \in DOMAIN mp \ visited : ~toAdd(mp[k])
    /\ PhaseReturn("add")
    /\ UNCHANGED shepherdCalls
    /\ UNCHANGED shepherdVars

\* update, the stored model merged only when Tx.Update returned nil
updateMergeOnSuccess ==
    /\ pc = "update"
    /\ \E k \in DOMAIN mp \ visited :
         /\ toUpdate(Shepherd, mp[k])
         /\ LET m == ShUpdate(Shepherd, UpdateArgs(mp[k])[1],
                               UpdateArgs(mp[k])[2]).m
            IN  /\ shepherdCalls' = shepherdCalls \cup
                      {ShepherdCall("Equals", EqualsArgs(mp[k])),
                       ShepherdCall("Update", UpdateArgs(mp[k]))}
                /\ \E e \in TxResults("Update") :
                     /\ mp' = IF e = "nil" THEN [mp EXCEPT ![k].stored = m]
                              ELSE mp
                     /\ TxCall("Update", m, e, k)
                     /\ Updated' = Incr(Updated, e)
    /\ UNCHANGED <<Stored, Shepherd, Added, Deleted, source, desired, op,
                   ncalls, base>>
    /\ UNCHANGED shepherdVars

\* Collection.update: one iteration that reaches shepherd.Update.  The
\* stored model is updated in place, then handed to Tx.Update.
update ==
    /\ pc = "update"
    /\ \E k \in DOMAIN mp \ visited :
         /\ toUpdate(Shepherd, mp[k])
         /\ LET m == ShUpdate(Shepherd, UpdateArgs(mp[k])[1],
                               UpdateArgs(mp[k])[2]).m
            IN  /\ mp' = [mp EXCEPT ![k].stored = m]
                /\ shepherdCalls' = shepherdCalls \cup
                      {ShepherdCall("Equals", EqualsArgs(mp[k])),
                       ShepherdCall("Update", UpdateArgs(mp[k]))}
                /\ \E e \in TxResults("Update") :
                     /\ TxCall("Update", m, e, k)
                     /\ Updated' = Incr(Updated, e)
    /\ UNCHANGED <<Stored, Shepherd, Added, Deleted, source, desired, op,
                   ncalls, base>>
    /\ UNCHANGED shepherdVars

updateReturn ==
    /\ pc = "update"
    /\ \A k \in DOMAIN mp \ visited : ~toUpdate(Shepherd, mp[k])
    /\ shepherdCalls' = shepherdCalls \cup
          {ShepherdCall("Equals", EqualsArgs(mp[k])) :
             k \in {x \in DOMAIN mp \ visited :
                      mp[x].desired # Nil /\ mp[x].stored # Nil}}
    /\ PhaseReturn("update")
    /\ UNCHANGED shepherdVars

\* One call on a Collection.
Next ==
    \/ \E o \in Methods : Call(o)
    \/ storedLoop
    \/ desiredLoop
    \/ delete
    \/ deleteReturn
    \/ add
    \/ addReturn
    \/ update
    \/ updateReturn

Spec == Init /\ [][Next]_vars

----------------------------------------------------------------------------
(* A Collection used for several calls.                                    *)

InitAgain == Init /\ UniqueKeys(source)

NextAgain ==
    \/ \E o \in Methods : Call(o)
    \/ \E o \in Methods : CallAgain(o)
    \/ Rebind
    \/ storedLoop
    \/ desiredLoop
    \/ delete
    \/ deleteReturn
    \/ add
    \/ addReturn
    \/ update
    \/ updateReturn

SpecAgain == InitAgain /\ [][NextAgain]_vars

----------------------------------------------------------------------------
(* Collection.dispositions alone, on any two sequences: the stored         *)
(* iterator may yield a key more than once.                                *)

StoredSeqs == SeqsUpTo(StoredModels, MaxLen)

InitDisp ==
    /\ Stored \in { Iter(s) : s \in StoredSeqs }
    /\ db = DbOf(Stored.items)
    /\ Shepherd = "nil"
    /\ Added = 0 /\ Updated = 0 /\ Deleted = 0
    /\ txStats = [ins |-> 0, upd |-> 0, del |-> 0]
    /\ source \in DesiredSeqs
    /\ desired = Iter(<< >>)
    /\ op = "none" /\ pc = "idle"
    /\ mp = NoDispositions
    /\ visited = {}
    /\ calls = << >>
    /\ err = "nil"
    /\ ncalls = 0
    /\ base = NoSnapshot
    /\ shepherdCalls = {}
    /\ mA = Nil /\ mB = Nil /\ out = NoOut /\ spc = "off"

NextDisp ==
    \/ \E o \in Methods : Call(o)
    \/ storedLoop
    \/ desiredLoop

SpecDisp == InitDisp /\ [][NextDisp]_vars

----------------------------------------------------------------------------
(* The DefaultShepherd alone, on any two models.                           *)

AllModels == UNION { ModelsOf(t) : t \in Types }

InitShepherd ==
    /\ mA \in AllModels /\ mB \in AllModels
    /\ out = NoOut /\ spc = "ready"
    /\ Stored = Iter(<< >>)
    /\ db = [k \in Keys |-> Nil]
    /\ Shepherd = "nil"
    /\ Added = 0 /\ Updated = 0 /\ Deleted = 0
    /\ txStats = [ins |-> 0, upd |-> 0, del |-> 0]
    /\ source = << >>
    /\ desired = Iter(<< >>)
    /\ op = "none" /\ pc = "off"
    /\ mp = NoDispositions
    /\ visited = {}
    /\ calls = << >>
    /\ err = "nil"
    /\ ncalls = 0
    /\ base = NoSnapshot
    /\ shepherdCalls = {}

\* shepherd.Equals(mA, mB): the result, and the two models after the call
callEquals ==
    /\ spc = "ready"
    /\ out' = [call |-> "Equals", res |-> DefaultEquals(mA, mB),
               a |-> mA, b |-> mB]
    /\ spc' = "done"
    /\ UNCHANGED <<mA, mB>>
    /\ UNCHANGED engineVars

\* shepherd.Update(mA, mB): whether it panicked, and the two models after
\* the call
callUpdate ==
    /\ spc = "ready"
    /\ out' = [call |-> "Update",
               res |-> IF DefaultUpdate(mA, mB).panic THEN "panic" ELSE "ok",
               a |-> DefaultUpdate(mA, mB).m, b |-> mB]
    /\ spc' = "done"
    /\ UNCHANGED <<mA, mB>>
    /\ UNCHANGED engineVars

NextShepherd ==
    \/ callEquals
    \/ callUpdate

SpecShepherd == InitShepherd /\ [][NextShepherd]_vars

----------------------------------------------------------------------------
(* Vocabulary of the properties.                                           *)

\* the running or last call has built its map
Built == pc \in {"delete", "add", "update"} \/ (pc = "idle" /\ ncalls > 0)

\* the last call has returned
Returned == pc = "idle" /\ ncalls > 0

\* what r.Stored yielded to the running or last call
Yielded == Rest(base.stored)

\* the latest model of key k in the sequence s
LastOf(s, k) ==
    s[CHOOSE i \in 1..Len(s) :
        Pk(s[i]) = k /\ \A j \in (i + 1)..Len(s) : Pk(s[j]) # k]

\* the keys the storage d holds
Held(d) == { k \in Keys : d[k] # Nil }

\* a field that is neither the PK, nor incremented, nor tagged eq:"-"
Compared(t, i) ==
    /\ ~Schema(t)[i].pk
    /\ ~Schema(t)[i].incremented
    /\ Schema(t)[i].eq # "-"

\* x and y agree on every compared field
SameCompared(x, y) ==
    \A i \in 1..Len(Schema(x.type)) : Compared(x.type, i) => x.vals[i] = y.vals[i]

\* x and y are equal under the strategy of the Collection
EqualUnder(x, y) ==
    IF Shepherd = "nil" THEN SameCompared(x, y) ELSE CustomEquals(x, y) = "true"

\* the stored model after the merge of the strategy of the Collection
Merged(x, y) ==
    IF Shepherd = "nil" THEN DefaultUpdate(x, y).m ELSE CustomUpdate(x, y).m

\* positions of the log holding a call of the given kind
CallsOf(kind) == { i \in 1..Len(calls) : calls[i].call = kind }

\* ... that returned nil
OkCallsOf(kind) == { i \in CallsOf(kind) : calls[i].err = "nil" }

\* the storage after the successful calls of the log, applied in order
RECURSIVE Applied(_, _)
Applied(d, log) ==
    IF log = << >> THEN d
    ELSE LET c == Head(log)
         IN  Applied(IF c.err = "nil" THEN TxApply(d, c.call, c.m) ELSE d,
                     Tail(log))

Rank(kind) ==
    CASE kind = "Delete" -> 1 [] kind = "Insert" -> 2 [] kind = "Update" -> 3

----------------------------------------------------------------------------
(* Properties.                                                             *)

\* C1 (convergence): when Reconcile returns nil, having read the storage's
\* models from r.Stored and a desired sequence with unique keys, the storage
\* holds exactly the desired keys, and each stored model equals the desired
\* one under the strategy in use.
C1_Convergence ==
    (/\ Returned /\ op = "Reconcile" /\ err = "nil"
     /\ FreshOver(base.stored, base.db)
     /\ UniqueKeys(source))
    => /\ Held(db) = KeysOf(source)
       /\ \A i \in 1..Len(source) : EqualUnder(db[Pk(source[i])], source[i])

C1_Witness ==
    /\ Returned /\ op = "Reconcile" /\ err = "nil"
    /\ FreshOver(base.stored, base.db)
    /\ UniqueKeys(source)
    /\ CallsOf("Delete") # {} /\ CallsOf("Insert") # {} /\ CallsOf("Update") # {}

\* C2 (phase ordering): in a Reconcile every Tx.Delete precedes every
\* Tx.Insert, which precedes every Tx.Update, and the phases work on the one
\* map built from the two drained iterators at the start of the call.
C2_PhaseOrder ==
    op = "Reconcile" =>
      /\ \A i, j \in 1..Len(calls) :
            i < j => Rank(calls[i].call) <= Rank(calls[j].call)
      /\ pc = "delete" => CallsOf("Insert") = {} /\ CallsOf("Update") = {}
      /\ pc = "add" => CallsOf("Update") = {}
      /\ pc \in {"delete", "add", "update"} =>
            /\ Stored.eof /\ desired.eof /\ desired.pos = Len(source)
            /\ DOMAIN mp = KeysOf(Yielded) \cup KeysOf(source)

C2_Witness ==
    /\ op = "Reconcile" /\ pc = "update"
    /\ OkCallsOf("Delete") # {} /\ OkCallsOf("Insert") # {}
    /\ OkCallsOf("Update") # {}
\* C3 (partition completeness): the built map has exactly the keys of the
\* stored and the desired sequence; a key is to-add iff only desired has it,
\* an update candidate iff both have it, to-delete iff only stored has it;
\* no entry has both sides absent.
C3_Partition ==
    pc \in {"delete", "add", "update"} =>
      LET SK == KeysOf(Yielded)
          DK == KeysOf(source)
          AddSet == { k \in DOMAIN mp : mp[k].desired # Nil /\ mp[k].stored = Nil }
          UpdSet == { k \in DOMAIN mp : mp[k].desired # Nil /\ mp[k].stored # Nil }
          DelSet == { k \in DOMAIN mp : mp[k].desired = Nil /\ mp[k].stored # Nil }
      IN  /\ DOMAIN mp = SK \cup DK
          /\ AddSet = DK \ SK
          /\ UpdSet = SK \cap DK
          /\ DelSet = SK \ DK
          /\ AddSet \cup UpdSet \cup DelSet = DOMAIN mp
          /\ AddSet \cap UpdSet = {} /\ AddSet \cap DelSet = {}
          /\ UpdSet \cap DelSet = {}

C3_Witness ==
    /\ pc \in {"delete", "add", "update"}
    /\ \E k \in DOMAIN mp : mp[k].desired # Nil /\ mp[k].stored = Nil
    /\ \E k \in DOMAIN mp : mp[k].desired # Nil /\ mp[k].stored # Nil
    /\ \E k \in DOMAIN mp : mp[k].desired = Nil /\ mp[k].stored # Nil

\* C4 as stated (idempotence): a Reconcile that follows a Reconcile with the
\* same desired sequence makes no Tx call and leaves the storage and the
\* counters as it found them.
C4_Original ==
    (ncalls >= 2 /\ op = "Reconcile" /\ base.afterReconcile)
    => /\ calls = << >>
       /\ db = base.db
       /\ Added = base.Added /\ Updated = base.Updated /\ Deleted = base.Deleted

\* C4 amended: the same, when r.Stored was, at the start of each of the two
\* calls, a fresh iterator over the models the storage then held.
C4_Idempotence ==
    (/\ ncalls >= 2 /\ op = "Reconcile" /\ base.afterReconcile
     /\ base.afterFresh
     /\ FreshOver(base.stored, base.db))
    => /\ calls = << >>
       /\ db = base.db
       /\ Added = base.Added /\ Updated = base.Updated /\ Deleted = base.Deleted

C4_Witness ==
    /\ Returned /\ ncalls >= 2 /\ op = "Reconcile" /\ base.afterReconcile
    /\ base.afterFresh
    /\ FreshOver(base.stored, base.db)
    /\ err = "nil"
    /\ base.Added > 0 /\ base.Updated > 0 /\ base.Deleted > 0

\* C5 (abort on failure): a Tx call that returned an error is the last Tx
\* call of its invocation, which has returned exactly that error; the
\* storage keeps what the successful calls before it did.
C5_AbortOnFailure ==
    /\ \A i \in 1..Len(calls) :
          calls[i].err # "nil" =>
             /\ i = Len(calls)
             /\ pc = "idle"
             /\ err = calls[i].err
    /\ (\A i \in 1..Len(calls) : calls[i].err = "nil") => err = "nil"
    /\ ncalls > 0 => db = Applied(base.db, calls)

C5_Witness ==
    /\ Returned /\ op = "Reconcile" /\ err = "DeleteFailed"
    /\ OkCallsOf("Delete") # {}
    /\ \E k \in DOMAIN mp : mp[k].desired # Nil /\ mp[k].stored = Nil

\* C6 (counters count successes only): each counter equals the number of
\* successful Tx calls of its kind made through this Collection, and equals
\* its value at the start of the running call plus the successful calls of
\* that call; it is never below the value an earlier call left.
C6_Counters ==
    /\ Added = txStats.ins /\ Updated = txStats.upd /\ Deleted = txStats.del
    /\ Added = base.Added + Cardinality(OkCallsOf("Insert"))
    /\ Updated = base.Updated + Cardinality(OkCallsOf("Update"))
    /\ Deleted = base.Deleted + Cardinality(OkCallsOf("Delete"))

C6_Witness ==
    /\ Returned /\ ncalls >= 2 /\ err # "nil"
    /\ base.Added + base.Updated + base.Deleted > 0
    /\ Len(calls) >= 2
    /\ Added + Updated + Deleted > base.Added + base.Updated + base.Deleted

\* C7 (counter accuracy): after the first call of a Collection, a Reconcile
\* that returned nil, Deleted is the number of keys stored but not desired,
\* Added the number desired but not stored, Updated the number of keys in
\* both whose models the strategy reports not equal.
C7_CounterAccuracy ==
    (Returned /\ ncalls = 1 /\ op = "Reconcile" /\ err = "nil") =>
      LET SK == Held(base.db)
          DK == KeysOf(source)
      IN  /\ Deleted = Cardinality(SK \ DK)
          /\ Added = Cardinality(DK \ SK)
          /\ Updated = Cardinality({ k \in SK \cap DK :
                          ~EqualUnder(base.db[k], LastOf(source, k)) })

C7_Witness ==
    /\ Returned /\ ncalls = 1 /\ op = "Reconcile" /\ err = "nil"
    /\ Deleted = 1 /\ Added = 1 /\ Updated = 1

\* C8 (update skips equal models): for an update candidate the strategy
\* reports equal no Tx.Update is called and the stored model is untouched;
\* for one reported not equal the stored model is merged and Tx.Update is
\* called once, with the merged model, before the update phase returns nil;
\* Updated grows by the Tx.Update calls that returned nil.
C8_UpdateSkipsEqual ==
    Built =>
      /\ \A k \in KeysOf(Yielded) \cap KeysOf(source) :
            LET s0 == LastOf(Yielded, k)
                d == LastOf(source, k)
                upd == { i \in CallsOf("Update") : Pk(calls[i].m) = k }
            IN  IF EqualUnder(s0, d)
                THEN upd = {} /\ mp[k].stored = s0
                ELSE /\ Cardinality(upd) <= 1
                     /\ \A i \in upd : /\ calls[i].m = Merged(s0, d)
                                       /\ mp[k].stored = calls[i].m
                     /\ upd = {} => mp[k].stored = s0
                     /\ (Returned /\ err = "nil" /\ op \in {"Update", "Reconcile"})
                           => upd # {}
      /\ \A i \in CallsOf("Update") :
            Pk(calls[i].m) \in KeysOf(Yielded) \cap KeysOf(source)
      /\ Updated = base.Updated + Cardinality(OkCallsOf("Update"))

C8_Witness ==
    /\ Returned /\ err = "nil" /\ op = "Update" /\ Shepherd = "custom"
    /\ \E k \in KeysOf(Yielded) \cap KeysOf(source) :
          EqualUnder(LastOf(Yielded, k), LastOf(source, k))
    /\ \E k \in KeysOf(Yielded) \cap KeysOf(source) :
          /\ ~EqualUnder(LastOf(Yielded, k), LastOf(source, k))
          /\ SameCompared(LastOf(Yielded, k), LastOf(source, k))
    /\ Updated = 1

\* C9 (last write wins): each side of an entry holds the latest model its
\* sequence yielded for the key, however often the key was yielded; a
\* repeated desired key leaves the stored side as it was; no error arises.
C9_LastWriteWins ==
    pc \in {"delete", "add", "update"} =>
      /\ \A k \in DOMAIN mp :
            /\ mp[k].stored =
                 (IF k \in KeysOf(Yielded) THEN LastOf(Yielded, k) ELSE Nil)
            /\ mp[k].desired =
                 (IF k \in KeysOf(source) THEN LastOf(source, k) ELSE Nil)
      /\ err = "nil"

C9_Witness ==
    /\ pc \in {"delete", "add", "update"}
    /\ \E i, j \in 1..Len(source) :
          /\ i < j /\ Pk(source[i]) = Pk(source[j]) /\ source[i] # source[j]
          /\ Pk(source[i]) \in KeysOf(Yielded)
    /\ \E i, j \in 1..Len(Yielded) :
          i < j /\ Pk(Yielded[i]) = Pk(Yielded[j]) /\ Yielded[i] # Yielded[j]

\* C10 (DefaultShepherd.Equals): for two models of one type Equals returns
\* true iff they agree on every field that is neither the PK, nor
\* incremented, nor tagged eq:"-"; it changes neither model.
C10_DefaultEquals ==
    (spc = "done" /\ out.call = "Equals" /\ mA.type = mB.type) =>
      /\ out.res = (IF SameCompared(mA, mB) THEN "true" ELSE "false")
      /\ out.a = mA /\ out.b = mB

C10_Witness ==
    /\ spc = "done" /\ out.call = "Equals" /\ out.res = "true"
    /\ mA.type = "Host" /\ mB.type = "Host"
    /\ mA.vals[1] # mB.vals[1] /\ mA.vals[2] # mB.vals[2]
    /\ mA.vals[4] # mB.vals[4]

\* C11 (merge fidelity): after DefaultShepherd.Update on two models of one
\* type every compared field of the stored model has the desired model's
\* value, every ignored field keeps its value, the desired model is
\* unchanged, and DefaultShepherd.Equals holds of the two.
C11_MergeFidelity ==
    (spc = "done" /\ out.call = "Update" /\ mA.type = mB.type) =>
      /\ out.res = "ok"
      /\ \A i \in 1..Len(Schema(mA.type)) :
            out.a.vals[i] = (IF Compared(mA.type, i) THEN mB.vals[i]
                             ELSE mA.vals[i])
      /\ out.a.type = mA.type
      /\ out.b = mB
      /\ DefaultEquals(out.a, out.b) = "true"

C11_Witness ==
    /\ spc = "done" /\ out.call = "Update"
    /\ mA.type = "Host" /\ mB.type = "Host"
    /\ \A i \in 1..4 : mA.vals[i] # mB.vals[i]
    /\ out.a # mA /\ out.a # mB

\* C12 (field-count mismatch): DefaultShepherd.Equals returns false when
\* the two models have field lists of different lengths.
C12_MismatchFails ==
    (/\ spc = "done" /\ out.call = "Equals"
     /\ Len(Schema(mA.type)) # Len(Schema(mB.type)))
    => out.res = "false"

\* C13 (materialize before mutate): in every call of Add, Update, Delete
\* or Reconcile no Tx call is made and nothing is read from the desired
\* sequence while the stored sequence is being drained, no Tx call is made
\* while the desired sequence is being drained, and from the first phase on
\* both sequences are exhausted, each read through once.
C13_MaterializeFirst ==
    /\ pc = "stored" =>
          /\ calls = << >> /\ db = base.db
          /\ desired = Iter(source)
    /\ pc = "desired" =>
          /\ calls = << >> /\ db = base.db
          /\ Stored.eof /\ Stored.pos = Len(Stored.items)
          /\ desired = Iter(source)
    /\ Built =>
          /\ Stored.eof /\ Stored.pos = Len(Stored.items)
          /\ Stored.items = base.stored.items
          /\ desired.eof /\ desired.pos = Len(source)
          /\ desired.items = source
    /\ calls # << >> => Built

C13_Witness ==
    /\ pc \in {"delete", "add", "update"}
    /\ Len(calls) = 1
    /\ Len(Yielded) >= 2 /\ Len(source) >= 2
    /\ Stored.eof /\ desired.eof

\* C14 (strategy argument roles): every Equals and every Update call the
\* engine makes on the strategy has the stored record of an
\* update-candidate as its first argument and the desired record of the
\* same key as its second.
C14_ArgumentRoles ==
    \A c \in shepherdCalls :
        /\ c.a = LastOf(Yielded, Pk(c.a))
        /\ c.b = LastOf(source, Pk(c.a))

\* C15 (empty-sequence edge cases): in a Reconcile, with an empty stored
\* sequence every entry is to-add and only Tx.Insert is called, once per
\* distinct desired key when the call returns nil; with an empty desired
\* sequence every entry is to-delete and only Tx.Delete is called, once per
\* distinct stored key when the call returns nil; with both empty the map
\* is empty, no Tx call is made, the counters are unchanged and nil is
\* returned.
C15_EmptySequences ==
    (op = "Reconcile" /\ Built) =>
      /\ Yielded = << >> =>
           /\ DOMAIN mp = KeysOf(source)
           /\ \A k \in DOMAIN mp : mp[k].stored = Nil /\ mp[k].desired # Nil
           /\ \A i \in 1..Len(calls) : calls[i].call = "Insert"
           /\ (Returned /\ err = "nil") =>
                /\ Len(calls) = Cardinality(KeysOf(source))
                /\ { Pk(calls[i].m) : i \in 1..Len(calls) } = KeysOf(source)
      /\ source = << >> =>
           /\ DOMAIN mp = KeysOf(Yielded)
           /\ \A k \in DOMAIN mp : mp[k].stored # Nil /\ mp[k].desired = Nil
           /\ \A i \in 1..Len(calls) : calls[i].call = "Delete"
           /\ (Returned /\ err = "nil") =>
                /\ Len(calls) = Cardinality(KeysOf(Yielded))
                /\ { Pk(calls[i].m) : i \in 1..Len(calls) } = KeysOf(Yielded)
      /\ (Yielded = << >> /\ source = << >>) =>
           /\ DOMAIN mp = {}
           /\ calls = << >>
           /\ Added = base.Added /\ Updated = base.Updated
           /\ Deleted = base.Deleted
           /\ db = base.db
           /\ err = "nil"

C15_Witness ==
    /\ Returned /\ op = "Reconcile" /\ err = "nil"
    /\ source = << >>
    /\ Cardinality(KeysOf(Yielded)) = 2
    /\ Len(calls) = 2 /\ Deleted = 2

\* C16 (frame of the single-phase primitives): Add calls only Tx.Insert,
\* only with the desired model of a to-add entry, and changes neither
\* Updated nor Deleted; Delete calls only Tx.Delete, only with the stored
\* model of a to-delete entry, and changes neither Added nor Updated;
\* Update calls only Tx.Update, only for entries with both sides, and
\* changes neither Added nor Deleted.  Add and Delete call no strategy and
\* leave every stored model as it was read.
C16_PrimitiveFrame ==
    Built =>
      /\ op = "Add" =>
           /\ \A i \in 1..Len(calls) :
                /\ calls[i].call = "Insert"
                /\ mp[Pk(calls[i].m)].stored = Nil
                /\ mp[Pk(calls[i].m)].desired = calls[i].m
           /\ Updated = base.Updated /\ Deleted = base.Deleted
           /\ Added = base.Added + Cardinality(OkCallsOf("Insert"))
      /\ op = "Delete" =>
           /\ \A i \in 1..Len(calls) :
                /\ calls[i].call = "Delete"
                /\ mp[Pk(calls[i].m)].desired = Nil
                /\ mp[Pk(calls[i].m)].stored = calls[i].m
           /\ Added = base.Added /\ Updated = base.Updated
           /\ Deleted = base.Deleted + Cardinality(OkCallsOf("Delete"))
      /\ op = "Update" =>
           /\ \A i \in 1..Len(calls) :
                /\ calls[i].call = "Update"
                /\ Pk(calls[i].m) \in KeysOf(Yielded) \cap KeysOf(source)
           /\ Added = base.Added /\ Deleted = base.Deleted
           /\ Updated = base.Updated + Cardinality(OkCallsOf("Update"))
      /\ op \in {"Add", "Delete"} =>
           /\ shepherdCalls = {}
           /\ \A k \in KeysOf(Yielded) : mp[k].stored = LastOf(Yielded, k)
           /\ \A k \in KeysOf(source) : mp[k].desired = LastOf(source, k)

C16_Witness ==
    /\ Returned /\ op = "Add" /\ err = "nil"
    /\ Len(calls) = 1
    /\ \E k \in DOMAIN mp : mp[k].stored # Nil /\ mp[k].desired = Nil
    /\ \E k \in DOMAIN mp :
         /\ mp[k].stored # Nil /\ mp[k].desired # Nil
         /\ ~EqualUnder(mp[k].stored, mp[k].desired)

\* C17 (at most one operation per key): within one Reconcile the keys of
\* the map are those of the stored and desired sequences throughout, no two
\* Tx calls have the same key, a candidate found equal gets no call, and
\* the number of Tx calls does not exceed the number of keys.
C17_OneCallPerKey ==
    (op = "Reconcile" /\ Built) =>
      /\ DOMAIN mp = KeysOf(Yielded) \cup KeysOf(source)
      /\ \A i, j \in 1..Len(calls) :
           Pk(calls[i].m) = Pk(calls[j].m) => i = j
      /\ \A i \in 1..Len(calls) :
           LET k == Pk(calls[i].m)
           IN  /\ k \in DOMAIN mp
               /\ calls[i].call = "Delete" <=> k \notin KeysOf(source)
               /\ calls[i].call = "Insert" <=> k \notin KeysOf(Yielded)
               /\ k \in KeysOf(Yielded) \cap KeysOf(source) =>
                    ~EqualUnder(LastOf(Yielded, k), LastOf(source, k))
      /\ Len(calls) <= Cardinality(KeysOf(Yielded) \cup KeysOf(source))

C17_Witness ==
    /\ Returned /\ op = "Reconcile" /\ err = "nil"
    /\ Len(calls) = 3
    /\ CallsOf("Delete") # {} /\ CallsOf("Insert") # {}
    /\ CallsOf("Update") # {}
    /\ Cardinality(DOMAIN mp) = 3

\* C18 as stated: a call on a Collection whose Stored iterator an earlier
\* call exhausted classifies every desired key as to-add, calls Tx.Insert
\* for each of them and never calls Tx.Delete or Tx.Update.
C18_Original ==
    (ncalls >= 2 /\ base.stored.eof /\ Returned /\ err = "nil") =>
      /\ DOMAIN mp = KeysOf(source)
      /\ \A k \in DOMAIN mp : mp[k].stored = Nil /\ mp[k].desired # Nil
      /\ { Pk(calls[i].m) : i \in CallsOf("Insert") } = KeysOf(source)
      /\ CallsOf("Delete") = {} /\ CallsOf("Update") = {}

\* C18 (stored source consumed by the first call): every call exhausts the
\* Stored iterator before it reads the desired sequence; a call that finds it exhausted builds a map
\* with no stored side, every desired key to-add, and never calls
\* Tx.Delete or Tx.Update; when it is an Add or a Reconcile returning nil
\* it has called Tx.Insert for each desired key, when it is an Update or a
\* Delete it makes no Tx call.
C18_StoredConsumed ==
    /\ pc \in {"desired", "delete", "add", "update"} =>
         Stored.eof /\ Rest(Stored) = << >>
    /\ (ncalls >= 2 /\ base.stored.eof /\ Built) =>
         /\ DOMAIN mp = KeysOf(source)
         /\ \A k \in DOMAIN mp : mp[k].stored = Nil /\ mp[k].desired # Nil
         /\ CallsOf("Delete") = {} /\ CallsOf("Update") = {}
         /\ shepherdCalls = {}
         /\ op \in {"Update", "Delete"} => calls = << >>
         /\ (op \in {"Add", "Reconcile"} /\ Returned /\ err = "nil") =>
              { Pk(calls[i].m) : i \in CallsOf("Insert") } = KeysOf(source)

C18_Witness ==
    /\ Returned /\ ncalls = 2 /\ base.stored.eof
    /\ op = "Reconcile" /\ err = "nil"
    /\ Len(calls) = 2
    /\ \E i \in 1..Len(calls) : base.db[Pk(calls[i].m)] # Nil
    /\ \E k \in Held(base.db) : k \notin KeysOf(source)

\* C19 (merge precedes persistence and is not undone): when Tx.Update
\* returned an error, the stored model of that entry is the merge of what
\* was read with the desired model, the storage still holds what it held,
\* Updated counts only the successful calls, and the error is what the
\* method returns; a candidate with no Update call keeps its stored model
\* as read.
C19_MergeNotUndone ==
    Built =>
      /\ \A i \in CallsOf("Update") :
           LET k == Pk(calls[i].m)
               s == LastOf(Yielded, k)
               d == LastOf(source, k)
           IN  /\ calls[i].m = Merged(s, d)
               /\ mp[k].stored = Merged(s, d)
               /\ EqualUnder(mp[k].stored, d)
               /\ calls[i].err # "nil" =>
                    /\ i = Len(calls)
                    /\ err = calls[i].err /\ pc = "idle"
                    /\ db[k] = Applied(base.db, SubSeq(calls, 1, i - 1))[k]
      /\ Updated = base.Updated + Cardinality(OkCallsOf("Update"))
      /\ \A k \in KeysOf(Yielded) :
           (\A i \in CallsOf("Update") : Pk(calls[i].m) # k) =>
             mp[k].stored = LastOf(Yielded, k)

C19_Witness ==
    /\ Returned /\ err = "UpdateFailed"
    /\ Updated = base.Updated
    /\ \E i \in CallsOf("Update") :
         /\ calls[i].err = "UpdateFailed"
         /\ mp[Pk(calls[i].m)].stored # LastOf(Yielded, Pk(calls[i].m))
         /\ db[Pk(calls[i].m)] = LastOf(Yielded, Pk(calls[i].m))
    /\ \E k \in KeysOf(Yielded) \cap KeysOf(source) :
         /\ \A i \in CallsOf("Update") : Pk(calls[i].m) # k
         /\ ~EqualUnder(LastOf(Yielded, k), LastOf(source, k))

====
